---- MODULE Spec2Model ----
(***************************************************************************)
(* A model of the file manager of src/index.js: the readline command loop, *)
(* its handlers, the asynchronous filesystem calls they await and the      *)
(* streams they start.  Node runs one callback at a time; what interleaves *)
(* is the order in which the pending filesystem calls and stream events of *)
(* different handlers complete.  A step of the model is one callback run   *)
(* to completion together with the promise continuations it resumes.       *)
(***************************************************************************)
EXTENDS Naturals, Sequences, FiniteSets, Bags, TLC

VARIABLES
    currentDir,   \* let currentDir (index.js:18): an absolute path, a sequence of names
    fs,           \* the directory entries of the filesystem: path -> [kind, ino]
    inodes,       \* the file contents: inode number -> sequence of chunks
    hs,           \* the bag of the 'line' listener's invocations in flight (index.js:25)
    nLines,       \* how many lines readline has emitted
    status,       \* "running" or "exited"
    exitCode,     \* the process's exit status once exited
    cause,        \* what ended the process
    farewell,     \* the farewell line of exitProgram has been printed
    out,          \* what the last step wrote to standard output
    sync,         \* the stdin 'data' callback is still emitting the lines of its chunk
    nav           \* history: whether the last lines were `cd <directory>`, then `up`

vars == <<currentDir, fs, inodes, hs, nLines, status, exitCode, cause, farewell,
          out, sync, nav>>

----------------------------------------------------------------------------
(* Bounds *)

\* the number of input lines of a session
MaxLines == 2
\* the number of chunks of the file the session starts with
MaxChunks == 1

----------------------------------------------------------------------------
(* Paths: path.resolve and path.parse(...).root on POSIX *)

Root == <<>>
Home == <<"h">>

NoArg == [k |-> "undef", segs |-> <<>>]
Rel(s) == [k |-> "rel", segs |-> s]
Abs(s) == [k |-> "abs", segs |-> s]

Front(s) == SubSeq(s, 1, Len(s) - 1)

\* the normalisation path.resolve applies: "." and "" dropped, ".." pops,
\* and ".." at the root stays at the root
RECURSIVE Normalize(_, _)
Normalize(acc, segs) ==
    IF segs = <<>> THEN acc
    ELSE LET s == Head(segs) IN
         IF s = "." \/ s = "" THEN Normalize(acc, Tail(segs))
         ELSE IF s = ".." THEN Normalize(IF acc = <<>> THEN acc ELSE Front(acc), Tail(segs))
         ELSE Normalize(Append(acc, s), Tail(segs))

\* path.resolve(base, arg) throws a TypeError when arg is undefined
Resolvable(arg) == arg.k # "undef"

resolve(base, arg) ==
    IF arg.k = "abs" THEN Normalize(<<>>, arg.segs) ELSE Normalize(base, arg.segs)

----------------------------------------------------------------------------
(* The filesystem the fs calls act on (POSIX semantics) *)

Chunk(i) == [br |-> 0, v |-> i]
\* the bytes with which the Brotli encoder closes its stream
EosChunk == [br |-> 1, v |-> 0]
\* the zero bytes of a hole left by a write past the end of a file
HoleChunk == [br |-> 0, v |-> 0]

DirEntry == [kind |-> "dir", ino |-> 0]
FileEntry(i) == [kind |-> "file", ino |-> i]

Exists(f, p) == p \in DOMAIN f
IsDir(f, p) == p \in DOMAIN f /\ f[p].kind = "dir"
IsFile(f, p) == p \in DOMAIN f /\ f[p].kind = "file"
\* open(p, O_CREAT) can make the entry: the parent is a directory
CanCreate(f, p) == p \notin DOMAIN f /\ p # Root /\ IsDir(f, Front(p))

IsPrefix(p, q) == Len(p) <= Len(q) /\ SubSeq(q, 1, Len(p)) = p
Children(f, p) == {q \in DOMAIN f : Len(q) = Len(p) + 1 /\ IsPrefix(p, q)}

Remove(f, p) == [q \in DOMAIN f \ {p} |-> f[q]]

FreshIno(I) ==
    CHOOSE n \in 1..(Cardinality(DOMAIN I) + 1) :
        n \notin DOMAIN I /\ \A m \in 1..(n - 1) : m \in DOMAIN I

\* pwrite of one chunk at (1-based) chunk position k
WriteAt(data, k, c) ==
    IF k <= Len(data) THEN [data EXCEPT ![k] = c]
    ELSE data \o [i \in 1..(k - 1 - Len(data)) |-> HoleChunk] \o <<c>>

\* open(p, "w"): truncate the file, or create it; fails on a directory
\* (EISDIR) and under a missing parent (ENOENT)
CanOpenW(f, p) == IsFile(f, p) \/ CanCreate(f, p)
OpenWIno(f, I, p) == IF IsFile(f, p) THEN f[p].ino ELSE FreshIno(I)
OpenWFs(f, I, p) == IF IsFile(f, p) THEN f ELSE f @@ (p :> FileEntry(FreshIno(I)))
OpenWInodes(f, I, p) ==
    IF IsFile(f, p) THEN [I EXCEPT ![f[p].ino] = <<>>] ELSE I @@ (FreshIno(I) :> <<>>)

\* rename(2)
CanRename(f, p, q) ==
    /\ Exists(f, p) /\ p # Root
    /\ \/ p = q
       \/ /\ q # Root
          /\ IsDir(f, Front(q))
          /\ IF IsDir(f, p)
             THEN /\ ~IsPrefix(p, q)                               \* EINVAL
                  /\ ~IsFile(f, q)                                 \* ENOTDIR
                  /\ (IsDir(f, q) => Children(f, q) = {})          \* ENOTEMPTY
             ELSE ~IsDir(f, q)                                     \* EISDIR
Moved(p, q, r) == q \o SubSeq(r, Len(p) + 1, Len(r))
RenameFs(f, p, q) ==
    IF p = q THEN f
    ELSE LET keep == {r \in DOMAIN f : ~IsPrefix(p, r) /\ r # q}
             move == {r \in DOMAIN f : IsPrefix(p, r)}
         IN [r \in keep \cup {Moved(p, q, m) : m \in move} |->
                IF r \in keep THEN f[r]
                ELSE f[CHOOSE m \in move : Moved(p, q, m) = r]]

----------------------------------------------------------------------------
(* Standard output *)

Say(t) == [t |-> t, p |-> <<>>, rows |-> {}, d |-> <<>>]
SayDir(dir) == [t |-> "You are currently in", p |-> dir, rows |-> {}, d |-> <<>>]
SayTable(rows) == [t |-> "table", p |-> <<>>, rows |-> rows, d |-> <<>>]
SayData(t, d) == [t |-> t, p |-> <<>>, rows |-> {}, d |-> d]
\* rl.prompt() writes the prompt "> "
Prompt == Say("> ")
Farewell == Say("Thank you for using File Manager, goodbye!")
Invalid == Say("Invalid input")
Failed == Say("Operation failed")

----------------------------------------------------------------------------
(* The input lines: input.trim().split(' ') gives a verb and its arguments *)

A == Rel(<<"a">>)
B == Rel(<<"b">>)
D == Rel(<<"d">>)

In(verb, a1, a2) == [verb |-> verb, a1 |-> a1, a2 |-> a2]

OneArg == {"cd", "cat", "add", "rm", "hash"}
TwoArgs == {"rn", "cp", "mv", "compress", "decompress"}
PathVerbs == OneArg \cup TwoArgs

Inputs ==
    {In(v, NoArg, NoArg) : v \in {".exit", "up", "ls", "os", "", "frobnicate"}}
    \cup {In("os", Rel(<<"--homedir">>), NoArg)}
    \cup {In("cd", a, NoArg) : a \in {NoArg, A, D, Rel(<<"..">>),
                                       Abs(<<"h", ".", "d", "..", "d">>)}}
    \cup {In(v, a, NoArg) : v \in {"cat", "add", "rm"}, a \in {NoArg, A, B}}
    \cup {In("hash", a, NoArg) : a \in {NoArg, A}}
    \cup {In("rn", x[1], x[2]) : x \in {<<A, NoArg>>, <<A, B>>, <<D, B>>}}
    \cup {In(v, x[1], x[2]) : v \in {"cp", "mv"}, x \in {<<A, NoArg>>, <<A, B>>}}
    \cup {In(v, x[1], x[2]) : v \in {"compress", "decompress"},
                               x \in {<<A, NoArg>>, <<A, B>>, <<B, A>>}}

\* a required argument of the line is absent
MissingArg(in) ==
    \/ in.verb \in OneArg /\ ~Resolvable(in.a1)
    \/ in.verb \in TwoArgs /\ (~Resolvable(in.a1) \/ ~Resolvable(in.a2))

----------------------------------------------------------------------------
(* The invocations of the 'line' listener and the streams they start.  An  *)
(* invocation is in the bag from its call until it has returned and its    *)
(* streams have no event to come.                                          *)

Entered(in) ==
    [verb |-> in.verb, pc |-> "entered", a1 |-> NoArg, p1 |-> <<>>, p2 |-> <<>>,
     p3 |-> <<>>, rd |-> "none", wr |-> "none", rino |-> 0, wino |-> 0, pos |-> 0,
     fin |-> FALSE, acc |-> <<>>]

Live(H) == BagToSet(H)
One(r) == SetToBag({r})
Swap(H, r, r2) == (H (-) One(r)) (+) One(r2)

\* the listener is suspended at an await of a promise that is already settled
Micro(H) == {r \in Live(H) : r.pc \in {"micro", "reject"}}
\* the listener is suspended at an await of a filesystem call
Awaiting(H) ==
    {r \in Live(H) : r.pc \in {"lstat", "readdir", "writeFile", "rename", "unlink"}}
\* the listener has been entered and has not reached rl.prompt()
Active(H) == Micro(H) \cup Awaiting(H)

ToFile(r) == r.verb \in {"cp", "mv", "compress", "decompress"}

CanTransfer(r, I) ==
    /\ r.rd = "open"
    /\ r.pos < Len(I[r.rino])
    /\ ToFile(r) => r.wr = "open"
CanEnd(r, I) ==
    /\ r.rd = "open"
    /\ r.pos >= Len(I[r.rino])
    /\ ToFile(r) => r.wr = "open"
\* the stream has an event to come
StreamBusy(r, I) == r.rd = "opening" \/ r.wr = "opening" \/ CanTransfer(r, I) \/ CanEnd(r, I)

\* a listener that has returned and whose streams have no event to come is garbage
Settle(H, I) ==
    LET keep == {r \in Live(H) : r.pc # "done" \/ StreamBusy(r, I)}
    IN [r \in keep |-> H[r]]

\* the inodes the kernel keeps: those with a link or an open descriptor
Gc(f, H, I) ==
    LET linked == {f[p].ino : p \in {q \in DOMAIN f : f[q].kind = "file"}}
        held == {r.rino : r \in {x \in Live(H) : x.rd = "open"}}
                \cup {r.wino : r \in {x \in Live(H) : x.wr = "open"}}
    IN [i \in (DOMAIN I) \cap (linked \cup held) |-> I[i]]

----------------------------------------------------------------------------
(* Initial state: index.js:9-23 *)

NoNav == [st |-> "none", target |-> <<>>]

InitFs ==
    (Root :> DirEntry) @@ (Home :> DirEntry) @@ (<<"h", "d">> :> DirEntry)
    @@ (<<"h", "a">> :> FileEntry(1))

Init ==
    /\ currentDir = Home
    /\ fs = InitFs
    /\ inodes = (1 :> [i \in 1..MaxChunks |-> Chunk(i)])
    /\ hs = EmptyBag
    /\ nLines = 0
    /\ status = "running"
    /\ exitCode = 0
    /\ cause = ""
    /\ farewell = FALSE
    /\ out = <<SayDir(Home), Prompt>>
    /\ sync = FALSE
    /\ nav = NoNav

----------------------------------------------------------------------------
(* Frames *)

Running == status = "running"
ProcessSame == UNCHANGED <<status, exitCode, cause, farewell>>

\* the state after a callback: what it assigned, with the listeners that are
\* garbage and the inodes nothing refers to dropped
Effect(dir, f, I, H, o) ==
    /\ currentDir' = dir
    /\ fs' = f
    /\ LET S == Settle(H, I) IN hs' = S /\ inodes' = Gc(f, S, I)
    /\ out' = o

\* the process ends: its listeners and descriptors go with it
Exit(code, why, o, fw) ==
    /\ status' = "exited"
    /\ exitCode' = code
    /\ cause' = why
    /\ farewell' = fw
    /\ out' = o
    /\ sync' = FALSE
    /\ hs' = EmptyBag
    /\ inodes' = Gc(fs, EmptyBag, inodes)
    /\ UNCHANGED <<currentDir, fs, nLines, nav>>

\* exitProgram: the farewell, rl.close(), process.exit()
exitProgram(why) == Exit(0, why, <<Farewell>>, TRUE)

\* an 'error' event with no listener, thrown as an uncaught exception
Uncaught == Exit(1, "uncaughtException", <<>>, farewell)

----------------------------------------------------------------------------
(* The synchronous part of the 'line' listener, up to its first await *)

\* navigateUp
navigateUp(dir) ==
    IF dir # Root
    THEN [dir |-> resolve(dir, Rel(<<"..">>)), o |-> <<SayDir(resolve(dir, Rel(<<"..">>)))>>]
    ELSE [dir |-> dir, o |-> <<Say("You are at the root directory.")>>]

\* handleOSCommand
handleOSCommand(option) ==
    IF option = Rel(<<"--EOL">>) THEN <<Say("EOL")>>
    ELSE IF option = Rel(<<"--cpus">>) THEN <<Say("Total CPUs"), Say("CPU")>>
    ELSE IF option = Rel(<<"--homedir">>) THEN <<[Say("homedir") EXCEPT !.p = Home]>>
    ELSE IF option = Rel(<<"--username">>) THEN <<Say("username")>>
    ELSE IF option = Rel(<<"--architecture">>) THEN <<Say("architecture")>>
    ELSE <<Invalid>>

\* path.resolve threw before anything was started: the listener's promise is
\* rejected, whatever the verb
Rejected == [Entered(In("", NoArg, NoArg)) EXCEPT !.pc = "reject"]

\* the listener's record when the listener suspends (or returns), for each verb
Dispatch(in, dir) ==
    LET r == Entered(in)
        src == resolve(dir, in.a1)
        dst == resolve(dir, in.a2)
    IN
    CASE in.verb = "up" -> [r EXCEPT !.pc = "done"]
      [] in.verb = "os" -> [r EXCEPT !.pc = "done"]
      [] in.verb = "cd" ->
            IF Resolvable(in.a1) THEN [r EXCEPT !.pc = "lstat", !.p1 = src]
            ELSE [r EXCEPT !.pc = "micro"]
      [] in.verb = "ls" -> [r EXCEPT !.pc = "readdir", !.p1 = dir]
      [] in.verb \in PathVerbs \ {"cd"} /\ MissingArg(in) -> Rejected
      [] in.verb = "cat" -> [r EXCEPT !.pc = "micro", !.p1 = src, !.rd = "opening"]
      [] in.verb = "hash" -> [r EXCEPT !.pc = "micro", !.p1 = src, !.rd = "opening"]
      [] in.verb = "add" -> [r EXCEPT !.pc = "writeFile", !.p1 = src]
      [] in.verb = "rm" -> [r EXCEPT !.pc = "unlink", !.p1 = src]
      [] in.verb = "rn" -> [r EXCEPT !.pc = "rename", !.p1 = src, !.p2 = dst]
      [] in.verb = "mv" ->
            [r EXCEPT !.pc = "micro", !.a1 = in.a1, !.p1 = src, !.p2 = dst,
                      !.rd = "opening", !.wr = "opening"]
      [] in.verb \in {"cp", "compress", "decompress"} ->
            [r EXCEPT !.pc = "micro", !.p1 = src, !.p2 = dst,
                      !.rd = "opening", !.wr = "opening"]
      [] OTHER -> [r EXCEPT !.pc = "done"]

\* what the synchronous part prints
DispatchOut(in, dir) ==
    CASE in.verb = "up" -> navigateUp(dir).o \o <<Prompt>>
      [] in.verb = "os" -> handleOSCommand(in.a1) \o <<Prompt>>
      [] in.verb = "cd" -> IF Resolvable(in.a1) THEN <<>> ELSE <<Invalid>>
      [] in.verb = "ls" \/ in.verb \in PathVerbs -> <<>>
      [] OTHER -> <<Invalid, Prompt>>

\* history of the lines entered: `cd` of a path that resolves to a directory,
\* and `up` as the line after it
NavAfter(in) ==
    IF in.verb = "cd" /\ Resolvable(in.a1) /\ IsDir(fs, resolve(currentDir, in.a1))
    THEN [st |-> "cd", target |-> resolve(currentDir, in.a1)]
    ELSE IF in.verb = "up" /\ nav.st = "cd" THEN [nav EXCEPT !.st = "cdup"]
    ELSE NoNav

\* rl.on('line'): readline emits one line of the chunk it was given
Line(in) ==
    /\ Running
    /\ nLines < MaxLines
    /\ Micro(hs) = {} \/ sync
    /\ IF in.verb = ".exit"
       THEN /\ exitProgram(".exit")
       ELSE /\ nLines' = nLines + 1
            /\ LET H == hs (+) One(Dispatch(in, currentDir))
               IN /\ Effect(IF in.verb = "up" THEN navigateUp(currentDir).dir ELSE currentDir,
                            fs, inodes, H, DispatchOut(in, currentDir))
                  /\ sync' = (Micro(H) # {})
            /\ nav' = NavAfter(in)
            /\ ProcessSame

----------------------------------------------------------------------------
(* The continuation of an await whose promise was already settled.  The    *)
(* microtask queue is drained before the rejections nothing handled are    *)
(* looked at.                                                              *)

Same == sync' = FALSE /\ ProcessSame /\ UNCHANGED <<nLines, nav>>

\* path.resolve threw inside an async function: the listener's promise is
\* rejected and nothing handles it.  Node 15 and later end the process with
\* status 1; earlier versions warn and go on, the listener never prompting.
UnhandledRejection(r) ==
    \/ Exit(1, "unhandledRejection", <<>>, farewell)
    \/ Effect(currentDir, fs, inodes, hs (-) One(r), <<>>) /\ Same

\* moveFile after `await copyFile(...)`: deleteFile(source) resolves the
\* path and calls fs.unlink
moveFileResume(r) ==
    /\ Effect(currentDir, fs, inodes,
              Swap(hs, r, [r EXCEPT !.pc = "unlink", !.p3 = resolve(currentDir, r.a1)]), <<>>)
    /\ Same

\* the listener after an await of copyFile, readFile, calculateHash,
\* compressFile, decompressFile or a changeDirectory that caught: rl.prompt()
promptResume(r) ==
    /\ Effect(currentDir, fs, inodes, Swap(hs, r, [r EXCEPT !.pc = "done"]), <<Prompt>>)
    /\ Same

Microtask ==
    /\ Running
    /\ Micro(hs) # {}
    /\ LET resumed == {r \in Micro(hs) : r.pc = "micro"} IN
       IF resumed = {} THEN UnhandledRejection(CHOOSE r \in Micro(hs) : TRUE)
       ELSE LET r == CHOOSE x \in resumed : TRUE IN
            IF r.verb = "mv" THEN moveFileResume(r) ELSE promptResume(r)

----------------------------------------------------------------------------
(* The completions of the awaited filesystem calls; each resumes its       *)
(* listener, which prints and calls rl.prompt()                            *)

Macro == Running /\ Micro(hs) = {}
At(r, pc) == r \in Live(hs) /\ r.pc = pc
Done(r) == Swap(hs, r, [r EXCEPT !.pc = "done"])

\* changeDirectory with the isDirectory test left out
changeDirectoryNoCheck(r) ==
    /\ Macro /\ At(r, "lstat")
    /\ IF Exists(fs, r.p1)
       THEN Effect(r.p1, fs, inodes, Done(r), <<SayDir(r.p1), Prompt>>)
       ELSE Effect(currentDir, fs, inodes, Done(r), <<Invalid, Prompt>>)
    /\ Same

\* changeDirectory after `await fs.lstat(newDir)`
changeDirectory(r) ==
    /\ Macro /\ At(r, "lstat")
    /\ IF IsDir(fs, r.p1)
       THEN Effect(r.p1, fs, inodes, Done(r), <<SayDir(r.p1), Prompt>>)
       ELSE Effect(currentDir, fs, inodes, Done(r), <<Invalid, Prompt>>)
    /\ Same

\* listFiles after `await fs.readdir(currentDir, ...)`
listFiles(r) ==
    /\ Macro /\ At(r, "readdir")
    /\ IF IsDir(fs, r.p1)
       THEN Effect(currentDir, fs, inodes, Done(r),
                   <<SayTable({<<q[Len(q)], fs[q].kind>> : q \in Children(fs, r.p1)}),
                     Prompt>>)
       ELSE Effect(currentDir, fs, inodes, Done(r), <<Failed, Prompt>>)
    /\ Same

\* createFile after `await fs.writeFile(fullPath, '')`
createFile(r) ==
    /\ Macro /\ At(r, "writeFile")
    /\ IF CanOpenW(fs, r.p1)
       THEN Effect(currentDir, OpenWFs(fs, inodes, r.p1), OpenWInodes(fs, inodes, r.p1),
                   Done(r), <<Say("File created"), Prompt>>)
       ELSE Effect(currentDir, fs, inodes, Done(r), <<Failed, Prompt>>)
    /\ Same

\* renameFile that takes the new path for the current directory
renameFileMoves(r) ==
    /\ Macro /\ At(r, "rename")
    /\ IF CanRename(fs, r.p1, r.p2)
       THEN Effect(r.p2, RenameFs(fs, r.p1, r.p2), inodes, Done(r),
                   <<Say("File renamed"), Prompt>>)
       ELSE Effect(currentDir, fs, inodes, Done(r), <<Failed, Prompt>>)
    /\ Same

\* renameFile after `await fs.rename(oldFullPath, newFullPath)`
renameFile(r) ==
    /\ Macro /\ At(r, "rename")
    /\ IF CanRename(fs, r.p1, r.p2)
       THEN Effect(currentDir, RenameFs(fs, r.p1, r.p2), inodes, Done(r),
                   <<Say("File renamed"), Prompt>>)
       ELSE Effect(currentDir, fs, inodes, Done(r), <<Failed, Prompt>>)
    /\ Same

\* the path deleteFile resolved: for mv after the copy was started
UnlinkPath(r) == IF r.verb = "mv" THEN r.p3 ELSE r.p1

\* deleteFile after `await fs.unlink(fullPath)`, called for rm and by moveFile.
\* unlink fails on a missing entry and on a directory, and where the
\* permissions forbid it (EACCES, EPERM)
deleteFile(r) ==
    /\ Macro /\ At(r, "unlink")
    /\ \E denied \in BOOLEAN :
          IF IsFile(fs, UnlinkPath(r)) /\ ~denied
          THEN Effect(currentDir, Remove(fs, UnlinkPath(r)), inodes, Done(r),
                      <<Say("File deleted"), Prompt>>)
          ELSE Effect(currentDir, fs, inodes, Done(r), <<Failed, Prompt>>)
    /\ Same

----------------------------------------------------------------------------
(* The events of the streams: they come whether or not the listener that   *)
(* started the stream has returned                                         *)

\* a stream's 'error' event: cat, cp, mv and hash listen and print; the
\* streams of compress and decompress have no listener
StreamError(r, H) ==
    IF r.verb \in {"compress", "decompress"}
    THEN Uncaught
    ELSE Effect(currentDir, fs, inodes, H, <<Failed>>) /\ Same

\* createReadStream: the open of the source
openRead(r) ==
    /\ Macro /\ r \in Live(hs) /\ r.rd = "opening"
    /\ IF IsFile(fs, r.p1)
       THEN /\ Effect(currentDir, fs, inodes,
                      Swap(hs, r, [r EXCEPT !.rd = "open", !.rino = fs[r.p1].ino]), <<>>)
            /\ Same
       ELSE StreamError(r, Swap(hs, r, [r EXCEPT !.rd = "error"]))

\* createWriteStream: the open of the destination, flags 'w'
openWrite(r) ==
    /\ Macro /\ r \in Live(hs) /\ r.wr = "opening"
    /\ IF CanOpenW(fs, r.p2)
       THEN /\ Effect(currentDir, OpenWFs(fs, inodes, r.p2), OpenWInodes(fs, inodes, r.p2),
                      Swap(hs, r, [r EXCEPT !.wr = "open",
                                            !.wino = OpenWIno(fs, inodes, r.p2)]), <<>>)
            /\ Same
       ELSE StreamError(r, Swap(hs, r, [r EXCEPT !.wr = "error"]))

Put(r, c) == [inodes EXCEPT ![r.wino] = WriteAt(@, r.pos + 1, c)]
Advance(r) == Swap(hs, r, [r EXCEPT !.pos = @ + 1])

\* one chunk read from the source and passed down the pipe
transfer(r) ==
    /\ Macro /\ r \in Live(hs) /\ CanTransfer(r, inodes)
    /\ LET c == inodes[r.rino][r.pos + 1] IN
       CASE r.verb = "cat" ->
               Effect(currentDir, fs, inodes, Advance(r), <<SayData("chunk", <<c>>)>>) /\ Same
         [] r.verb = "hash" ->
               Effect(currentDir, fs, inodes,
                      Swap(hs, r, [r EXCEPT !.pos = @ + 1, !.acc = Append(@, c)]), <<>>) /\ Same
         [] r.verb \in {"cp", "mv"} ->
               Effect(currentDir, fs, Put(r, c), Advance(r), <<>>) /\ Same
         [] r.verb = "compress" ->
               Effect(currentDir, fs, Put(r, [c EXCEPT !.br = @ + 1]), Advance(r), <<>>) /\ Same
         [] r.verb = "decompress" ->
               IF r.fin THEN Effect(currentDir, fs, inodes, Advance(r), <<>>) /\ Same
               ELSE IF c.br = 0 THEN Uncaught
               ELSE IF c = EosChunk
                    THEN Effect(currentDir, fs, inodes,
                                Swap(hs, r, [r EXCEPT !.pos = @ + 1, !.fin = TRUE]), <<>>) /\ Same
               ELSE Effect(currentDir, fs, Put(r, [c EXCEPT !.br = @ - 1]), Advance(r), <<>>)
                    /\ Same

Ended(r) == Swap(hs, r, [r EXCEPT !.rd = "ended",
                                  !.wr = IF ToFile(r) THEN "finished" ELSE @])

\* the source's 'end': the pipe ends its destination, hash prints the digest
endOfFile(r) ==
    /\ Macro /\ r \in Live(hs) /\ CanEnd(r, inodes)
    /\ CASE r.verb = "hash" ->
               Effect(currentDir, fs, inodes, Ended(r), <<SayData("digest", r.acc)>>) /\ Same
         [] r.verb = "compress" ->
               Effect(currentDir, fs, Put(r, EosChunk), Ended(r), <<>>) /\ Same
         [] r.verb = "decompress" ->
               IF r.fin THEN Effect(currentDir, fs, inodes, Ended(r), <<>>) /\ Same
               ELSE Uncaught
         [] OTHER -> Effect(currentDir, fs, inodes, Ended(r), <<>>) /\ Same

----------------------------------------------------------------------------
(* The process *)

\* process.on('SIGINT')
SIGINT == Macro /\ exitProgram("SIGINT")

\* end-of-stream on standard input: readline closes, and 'close' has no
\* listener.  What is pending goes on; once nothing is, the event loop is
\* empty and the process ends with status 0.  The step is the end of the
\* process, the end-of-stream having come at any moment before it.
StdinEnd ==
    /\ Macro
    /\ Awaiting(hs) = {}
    /\ \A r \in Live(hs) : ~StreamBusy(r, inodes)
    /\ Exit(0, "eof", <<>>, farewell)

Next ==
    \/ \E in \in Inputs : Line(in)
    \/ Microtask
    \/ \E r \in Live(hs) : changeDirectory(r)
    \/ \E r \in Live(hs) : listFiles(r)
    \/ \E r \in Live(hs) : createFile(r)
    \/ \E r \in Live(hs) : renameFile(r)
    \/ \E r \in Live(hs) : deleteFile(r)
    \/ \E r \in Live(hs) : openRead(r)
    \/ \E r \in Live(hs) : openWrite(r)
    \/ \E r \in Live(hs) : transfer(r)
    \/ \E r \in Live(hs) : endOfFile(r)
    \/ SIGINT
    \/ StdinEnd

Spec == Init /\ [][Next]_vars

----------------------------------------------------------------------------
(* The claims *)

IsText(e) == e.t # Prompt.t
\* what a step printed, the prompt aside
Texts(o) == SelectSeq(o, IsText)

MissingArgInputs == {in \in Inputs : in.verb \in PathVerbs /\ MissingArg(in)}

\* C1: a line that gives a path verb with a required argument absent prints
\* exactly "Invalid input", the process goes on running and the listener is
\* not left rejected, so that the loop goes on to the next line.
C1_MissingArgInvalidInput ==
    [][\A in \in MissingArgInputs :
          Line(in) => /\ Texts(out') = <<Invalid>>
                      /\ status' = "running"
                      /\ Rejected \notin Live(hs')]_vars

\* C2: the listener of a new line never starts while the listener of an
\* earlier line is still running, suspended on an awaited filesystem call.
C2_OneLineAtATime == [][\A in \in Inputs : Line(in) => Awaiting(hs) = {}]_vars

StreamOver(r) == r.rd \in {"none", "ended", "error"} /\ r.wr \in {"none", "finished", "error"}

\* C3: the prompt for the next command is shown only after the command's
\* stream has ended or failed: a listener that has called rl.prompt() has no
\* stream still opening or transferring.
C3_PromptAfterCompletion == \A r \in Live(hs) : r.pc = "done" => StreamOver(r)

Content(f, I, p) == I[f[p].ino]

\* C4: when the copy of mv src dst has succeeded and the delete of src then
\* fails, the source still exists and the destination exists with the
\* source's content.
C4_MvPartialResult ==
    [][\A r \in Live(hs) :
          (deleteFile(r) /\ r.verb = "mv" /\ r.rd = "ended" /\ r.wr = "finished"
             /\ Texts(out') = <<Failed>>)
          => /\ IsFile(fs', r.p1)
             /\ IsFile(fs', r.p2)
             /\ Content(fs', inodes', r.p2) = Content(fs', inodes', r.p1)]_vars

\* C5: each of the three ways a session ends (.exit, the interrupt signal,
\* end-of-stream on standard input) prints the farewell before the process
\* terminates, and the process terminates with status 0.
C5_FarewellOnEveryExit ==
    (status = "exited" /\ cause \in {".exit", "SIGINT", "eof"}) => (farewell /\ exitCode = 0)

\* C6: the process never terminates on a handler's failing filesystem
\* operation: it does not end by the error of a stream.
C6_NoExitOnHandlerError == ~(status = "exited" /\ cause = "uncaughtException")

Normal(p) == \A i \in 1..Len(p) : p[i] \notin {".", "..", ""}

\* what the paths a cd line can give resolve to from the directory dir:
\* a, d, .. and /h/./d/../d
CdTargets(dir) ==
    {Append(dir, "a"), Append(dir, "d"), IF dir = <<>> THEN dir ELSE Front(dir), <<"h", "d">>}

\* C7: cd resolves its path against the current directory, collapsing . and
\* .. segments; it adopts the resolved path, and prints it, exactly when
\* that is a directory, and otherwise prints "Invalid input" and leaves the
\* current directory as it is; so the current directory changes only to the
\* parent (up) or to a resolved path that is a directory when cd adopts it.
C7_CdAdoptsDirectories ==
    [][/\ \A r \in Live(hs') :
             (r.pc = "lstat" /\ r \notin Live(hs)) =>
                r.p1 \in CdTargets(currentDir) /\ Normal(r.p1) /\ currentDir' = currentDir
       /\ Line(In("cd", NoArg, NoArg)) => Texts(out') = <<Invalid>> /\ currentDir' = currentDir
       /\ \A r \in Live(hs) :
             changeDirectory(r) =>
                IF IsDir(fs, r.p1)
                THEN currentDir' = r.p1 /\ Texts(out') = <<SayDir(r.p1)>>
                ELSE currentDir' = currentDir /\ Texts(out') = <<Invalid>>
       /\ currentDir' # currentDir =>
             \/ Line(In("up", NoArg, NoArg)) /\ currentDir' = Front(currentDir)
             \/ /\ \E r \in Live(hs) : changeDirectory(r) /\ currentDir' = r.p1
                /\ IsDir(fs', currentDir')
                /\ Normal(currentDir')]_vars

C7_Witness ==
    /\ currentDir = <<"h", "d">>
    /\ Texts(out) = <<SayDir(<<"h", "d">>)>>
    /\ nav.st = "cd"

\* C8: cd D, for an existing directory D, followed by up leaves the current
\* directory equal to D's parent (the root for D the root) once both
\* commands have completed.
C8_CdThenUp ==
    (nav.st = "cdup" /\ Active(hs) = {} /\ Running)
       => currentDir = (IF nav.target = Root THEN Root ELSE Front(nav.target))

\* C9: the current directory is changed only by cd and up: a step that
\* changes it is the completion of a cd or the entry of up, and an unknown
\* verb or an empty line prints exactly "Invalid input".
C9_OnlyNavigationMoves ==
    [][/\ currentDir' # currentDir =>
             \/ Line(In("up", NoArg, NoArg))
             \/ \E r \in Live(hs) : r.verb = "cd" /\ changeDirectory(r)
       /\ \A in \in Inputs :
             (in.verb \in {"", "frobnicate"} /\ Line(in)) =>
                Texts(out') = <<Invalid>> /\ currentDir' = currentDir]_vars

C9_Witness ==
    /\ Texts(out) = <<Say("File renamed")>>
    /\ IsFile(fs, <<"h", "b">>)
    /\ currentDir = Home

\* C10: in mv src dst the unlink of src comes after the end of the copy:
\* when mv prints "File deleted" the copy stream has ended and the
\* destination holds the complete content the source had.
C10_UnlinkAfterCopy ==
    [][\A r \in Live(hs) :
          (deleteFile(r) /\ r.verb = "mv" /\ Texts(out') = <<Say("File deleted")>>)
          => /\ r.rd = "ended" /\ r.wr = "finished"
             /\ IsFile(fs', r.p2)
             /\ Content(fs', inodes', r.p2) = Content(fs, inodes, UnlinkPath(r))]_vars

====
